---- MODULE Spec2Model ----
(***************************************************************************)
(* Model of airflow/dags/training_pipeline.py: the workflow descriptor     *)
(* "network_training_pipelinr" and the runs the orchestrator derives from  *)
(* it.                                                                     *)
(*                                                                         *)
(* Every line of the file carries a leading "#".  The model is that of the *)
(* declaration the lines spell out (lines 1-46 read without the comment    *)
(* marker); evaluated as shipped, the file executes no statement at all.   *)
(*                                                                         *)
(* The descriptor only declares; what a declaration means (retries, the    *)
(* ">>" edge, "@weekly", catchup) is the orchestrator's semantics, modelled *)
(* here at the place of the declaration that selects it.                   *)
(*                                                                         *)
(* Time is counted in days; day 0 is Sunday 2024-12-22 00:00 UTC, so that  *)
(* the "@weekly" boundaries (Sunday 00:00) are the multiples of Period.    *)
(***************************************************************************)
EXTENDS Integers, Sequences, FiniteSets

\* ------------------------------------------------------------------ bounds
\* Last day the clock reaches.
MaxDay == 21

\* ------------------------------------------------- descriptor's literals
\* default_args={'retries': 2}
retries_raised == 2 + 1

retries == 2

\* schedule_interval="@weekly": one boundary every 7 days
Period == 7

\* start_date=pendulum.datetime(2024,12,24): Tuesday, day 2 of the model
StartDate == 2

\* catchup=False
catchup_on == TRUE

catchup == FALSE

\* bucket_name = "networksecurity3"
bucket_name == "networksecurity3"

\* Exit statuses a shell command can hand back to os.system: 0 or not 0.
ExitCodes == {0, 1}

VARIABLES
    now,        \* the clock, in days
    stmt,       \* index of the next statement of the descriptor to evaluate
    loadState,  \* "evaluating", "registered" or "failed"
    dag,        \* the DAG objects the evaluation has built so far
    dagbag,     \* the DAG objects the orchestrator has registered
    evalTime,   \* the day of the first evaluation (-1 before it)
    nextDagrun, \* start of the next data interval to run (-1: none)
    runs        \* the workflow runs, by start of their data interval

vars == <<now, stmt, loadState, dag, dagbag, evalTime, nextDagrun, runs>>

\* --------------------------------------------------------- the descriptor
\* The statements of the file, in order.
DescriptorNoSync ==
    << [line |-> 1, kind |-> "import"],
       [line |-> 2, kind |-> "import"],
       [line |-> 3, kind |-> "import"],
       [line |-> 4, kind |-> "import"],
       [line |-> 5, kind |-> "import"],
       [line |-> 6, kind |-> "import"],
       [line |-> 7, kind |-> "import"],
       [line |-> 8, kind |-> "import"],
       [line |-> 9, kind |-> "load_dotenv"],
       [line |-> 11, kind |-> "dag"],
       [line |-> 22, kind |-> "def"],
       [line |-> 29, kind |-> "def"],
       [line |-> 34, kind |-> "operator", var |-> "training_pipeline",
        task_id |-> "train_pipeline", python_callable |-> "training"] >>

Descriptor ==
    << [line |-> 1, kind |-> "import"],
       [line |-> 2, kind |-> "import"],
       [line |-> 3, kind |-> "import"],
       [line |-> 4, kind |-> "import"],
       [line |-> 5, kind |-> "import"],
       [line |-> 6, kind |-> "import"],
       [line |-> 7, kind |-> "import"],
       [line |-> 8, kind |-> "import"],
       [line |-> 9, kind |-> "load_dotenv"],
       [line |-> 11, kind |-> "dag"],
       [line |-> 22, kind |-> "def"],
       [line |-> 29, kind |-> "def"],
       [line |-> 34, kind |-> "operator", var |-> "training_pipeline",
        task_id |-> "train_pipeline", python_callable |-> "training"],
       [line |-> 40, kind |-> "operator", var |-> "sync_data_to_s3",
        task_id |-> "sync_data_to_s3",
        python_callable |-> "sync_artifact_to_s3_bucket"],
       [line |-> 46, kind |-> "edge", up |-> "training_pipeline",
        down |-> "sync_data_to_s3"] >>

\* The task a variable of the descriptor is bound to.
TaskOfVar(v) ==
    LET i == CHOOSE j \in 1..Len(Descriptor) :
                 Descriptor[j].kind = "operator" /\ Descriptor[j].var = v
    IN  Descriptor[i].task_id

\* with DAG('network_training_pipelinr', default_args=..., ...) as dag
NewDag ==
    [dag_id |-> "network_training_pipelinr",
     retries |-> retries,
     period |-> Period,
     start_date |-> StartDate,
     catchup |-> catchup,
     tasks |-> {},
     edges |-> {}]

\* a >> b : a is upstream of b
rshift_reversed(up, down) == <<down, up>>

rshift(up, down) == <<up, down>>

\* What one statement does to the DAG objects built so far.
Evaluate(s, d) ==
    CASE s.kind = "dag" -> {NewDag}
      [] s.kind = "operator" ->
            {[g EXCEPT !.tasks = @ \cup
                 {[task_id |-> s.task_id,
                   python_callable |-> s.python_callable]}] : g \in d}
      [] s.kind = "edge" ->
            {[g EXCEPT !.edges = @ \cup
                 {rshift(TaskOfVar(s.up), TaskOfVar(s.down))}] : g \in d}
      [] OTHER -> d

\* The orchestrator collects the DAG objects of a module whose evaluation
\* ran to its end; a module whose evaluation raised contributes none.
CollectAlways(ok, d) == d

Collect(ok, d) == IF ok THEN d ELSE {}


\* ------------------------------------------------------------- the clock
Boundaries == {d \in (0 - 2 * Period)..(MaxDay + Period) : d % Period = 0}

Max(a, b) == IF a >= b THEN a ELSE b

\* The latest boundary strictly before t, the earliest strictly after t,
\* and the earliest at or after t.
GetPrev(t) == CHOOSE b \in Boundaries : b < t /\ b + Period >= t

GetNext(t) == CHOOSE b \in Boundaries : b > t /\ b - Period <= t

AlignToNext(t) == CHOOSE b \in Boundaries : b >= t /\ b - Period < t

\* catchup=False: the earliest interval a run may be created for starts one
\* period before the latest boundary, so that the interval has just ended.
SkipToLatest(earliest, t) ==
    LET last_start == GetPrev(t)
        next_start == GetNext(last_start)
        new_start  == IF next_start = t THEN last_start
                                        ELSE GetPrev(last_start)
    IN  Max(new_start, AlignToNext(earliest))

\* Start of the next data interval, after an interval that ended at `last`
\* (-1: no run yet), computed at time t for DAG d.
NextDagrunInfo(d, last, t) ==
    LET earliest == IF d.catchup THEN AlignToNext(d.start_date)
                                 ELSE SkipToLatest(d.start_date, t)
    IN  IF last = -1 THEN earliest ELSE Max(last, earliest)

\* ------------------------------------------------------------ evaluation
Init ==
    /\ now = 0
    /\ stmt = 1
    /\ loadState = "evaluating"
    /\ dag = {}
    /\ dagbag = {}
    /\ evalTime = -1
    /\ nextDagrun = -1
    /\ runs = [r \in {} |-> 0]

\* A day passes.  An evaluation takes far less than a day: the clock stands
\* still from its first statement to its end.
Tick ==
    /\ now < MaxDay
    /\ loadState = "evaluating" => stmt = 1
    /\ now' = now + 1
    /\ UNCHANGED <<stmt, loadState, dag, dagbag, evalTime, nextDagrun, runs>>

\* The next statement of the descriptor is evaluated and returns.
EvalStmt ==
    /\ loadState = "evaluating"
    /\ stmt <= Len(Descriptor)
    /\ dag' = Evaluate(Descriptor[stmt], dag)
    /\ stmt' = stmt + 1
    /\ evalTime' = IF stmt = 1 THEN now ELSE evalTime
    /\ UNCHANGED <<now, loadState, dagbag, nextDagrun, runs>>

\* The next statement raises (a module that is not installed, an argument
\* the DAG constructor rejects, the import timeout): the evaluation ends.
EvalRaises ==
    /\ loadState = "evaluating"
    /\ stmt <= Len(Descriptor)
    /\ loadState' = "failed"
    /\ dagbag' = Collect(FALSE, dag)
    /\ evalTime' = IF stmt = 1 THEN now ELSE evalTime
    /\ nextDagrun' = -1
    /\ UNCHANGED <<now, stmt, dag, runs>>

\* The evaluation reaches the end of the file: the DAG is registered and the
\* first data interval is computed.
EvalEnds ==
    /\ loadState = "evaluating"
    /\ stmt = Len(Descriptor) + 1
    /\ loadState' = "registered"
    /\ dagbag' = Collect(TRUE, dag)
    /\ nextDagrun' = IF dagbag' = {} THEN -1
                     ELSE NextDagrunInfo(CHOOSE d \in dagbag' : TRUE, -1, now)
    /\ UNCHANGED <<now, stmt, dag, evalTime, runs>>

\* ------------------------------------------------------------ scheduling
TheDag == CHOOSE d \in dagbag : TRUE

TaskIdsOf(d) == {k.task_id : k \in d.tasks}

Callable(d, t) == (CHOOSE k \in d.tasks : k.task_id = t).python_callable

\* A new run: one task instance per task of the DAG, none of them tried.
NewRun(d) ==
    [ti |-> [t \in TaskIdsOf(d) |-> [state |-> "none", tries |-> 0, pc |-> 0]],
     cmds |-> <<>>,
     outcomes |-> <<>>]

\* The data interval [nextDagrun, nextDagrun + Period) has ended: its run is
\* created and the interval after it is computed.
CreateRun ==
    /\ dagbag # {}
    /\ nextDagrun # -1
    /\ nextDagrun \notin DOMAIN runs
    /\ nextDagrun + TheDag.period <= now
    /\ runs' = [r \in DOMAIN runs \cup {nextDagrun} |->
                   IF r = nextDagrun THEN NewRun(TheDag) ELSE runs[r]]
    /\ nextDagrun' = NextDagrunInfo(TheDag, nextDagrun + TheDag.period, now)
    /\ UNCHANGED <<now, stmt, loadState, dag, dagbag, evalTime>>

\* ----------------------------------------------------------- task instances
Upstream(d, t) == {e[1] : e \in {x \in d.edges : x[2] = t}}

\* No trigger_rule is declared: the default, all_success, applies.
TriggerRuleIgnored(run, d, t) == TRUE

TriggerRuleMet(run, d, t) ==
    \A u \in Upstream(d, t) : run.ti[u].state = "success"

UpstreamHasFailed(run, d, t) ==
    \E u \in Upstream(d, t) : run.ti[u].state \in {"failed", "upstream_failed"}

\* The state of a task instance whose callable raised on its tries-th
\* invocation: retried while the retries are not used up.
HandleFailureStrict(tries, d) ==
    IF tries < d.retries THEN "up_for_retry" ELSE "failed"

HandleFailure(tries, d) ==
    IF tries <= d.retries THEN "up_for_retry" ELSE "failed"

SetTi(r, t, rec) == [runs EXCEPT ![r].ti[t] = rec]

\* The orchestrator starts (or retries) a task instance whose upstream tasks
\* have all succeeded: the callable is invoked.
StartTask(r, t) ==
    /\ runs[r].ti[t].state \in {"none", "up_for_retry"}
    /\ TriggerRuleMet(runs[r], TheDag, t)
    /\ runs' = SetTi(r, t, [state |-> "running",
                            tries |-> runs[r].ti[t].tries + 1,
                            pc |-> 1])
    /\ UNCHANGED <<now, stmt, loadState, dag, dagbag, evalTime, nextDagrun>>

\* A task instance that cannot run any more because an upstream task failed.
MarkUpstreamFailed(r, t) ==
    /\ runs[r].ti[t].state = "none"
    /\ UpstreamHasFailed(runs[r], TheDag, t)
    /\ runs' = SetTi(r, t, [runs[r].ti[t] EXCEPT !.state = "upstream_failed"])
    /\ UNCHANGED <<now, stmt, loadState, dag, dagbag, evalTime, nextDagrun>>

\* training(): TrainingPipeline().run_pipeline() returns.
TrainingReturns(r, t) ==
    /\ Callable(TheDag, t) = "training"
    /\ runs[r].ti[t].state = "running"
    /\ runs' = [SetTi(r, t, [runs[r].ti[t] EXCEPT !.state = "success", !.pc = 0])
                   EXCEPT ![r].outcomes = Append(@, "returned")]
    /\ UNCHANGED <<now, stmt, loadState, dag, dagbag, evalTime, nextDagrun>>

\* training(): the import, the constructor or run_pipeline() raises.
TrainingRaises(r, t) ==
    /\ Callable(TheDag, t) = "training"
    /\ runs[r].ti[t].state = "running"
    /\ runs' = [SetTi(r, t, [runs[r].ti[t] EXCEPT
                                !.state = HandleFailure(runs[r].ti[t].tries, TheDag),
                                !.pc = 0])
                   EXCEPT ![r].outcomes = Append(@, "raised")]
    /\ UNCHANGED <<now, stmt, loadState, dag, dagbag, evalTime, nextDagrun>>

\* The two commands of sync_artifact_to_s3_bucket, in the order of the code.
SyncCommandsSwapped ==
    << [src |-> "/app/final_model", bucket |-> bucket_name, prefix |-> "final_model"],
       [src |-> "/app/Artifacts", bucket |-> bucket_name, prefix |-> "artifact"] >>

SyncCommands ==
    << [src |-> "/app/Artifacts", bucket |-> bucket_name, prefix |-> "artifact"],
       [src |-> "/app/final_model", bucket |-> bucket_name, prefix |-> "final_model"] >>

\* os.system(...) returns the exit status; the statement drops the value, so
\* no exit status makes the callable raise.
OsSystemChecked(rc) == rc # 0

OsSystemRaises(rc) == FALSE

\* The pc-th os.system call of the callable, ending with exit status rc.
OsSystem(r, t, n, rc) ==
    /\ Callable(TheDag, t) = "sync_artifact_to_s3_bucket"
    /\ runs[r].ti[t].state = "running"
    /\ runs[r].ti[t].pc = n
    /\ runs' = [SetTi(r, t,
                   IF OsSystemRaises(rc)
                   THEN [runs[r].ti[t] EXCEPT
                            !.state = HandleFailure(runs[r].ti[t].tries, TheDag),
                            !.pc = 0]
                   ELSE [runs[r].ti[t] EXCEPT !.pc = n + 1])
                   EXCEPT ![r].cmds =
                       Append(@, [cmd |-> SyncCommands[n], rc |-> rc])]
    /\ UNCHANGED <<now, stmt, loadState, dag, dagbag, evalTime, nextDagrun>>

\* os.system(f"aws s3 sync /app/Artifacts s3://{bucket_name}/artifact")
SyncArtifacts(r, t) == \E rc \in ExitCodes : OsSystem(r, t, 1, rc)

\* os.system(f"aws s3 sync /app/final_model s3://{bucket_name}/final_model")
SyncFinalModel(r, t) == \E rc \in ExitCodes : OsSystem(r, t, 2, rc)

\* sync_artifact_to_s3_bucket falls off its end: the task succeeds.
SyncReturns(r, t) ==
    /\ Callable(TheDag, t) = "sync_artifact_to_s3_bucket"
    /\ runs[r].ti[t].state = "running"
    /\ runs[r].ti[t].pc = Len(SyncCommands) + 1
    /\ runs' = SetTi(r, t, [runs[r].ti[t] EXCEPT !.state = "success", !.pc = 0])
    /\ UNCHANGED <<now, stmt, loadState, dag, dagbag, evalTime, nextDagrun>>

\* What the orchestrator reports for a run: decided by its leaf tasks once
\* every task instance has reached a final state.
Finished == {"success", "failed", "upstream_failed"}

Leaves(d) == {t \in TaskIdsOf(d) : \A e \in d.edges : e[1] # t}

RunState(run, d) ==
    IF \E t \in TaskIdsOf(d) : run.ti[t].state \notin Finished THEN "running"
    ELSE IF \A t \in Leaves(d) : run.ti[t].state = "success" THEN "success"
    ELSE "failed"

\* The runs the bounded clock leaves room for, and the declared task ids.
RunIds == {d \in 0..MaxDay : d % Period = 0}

TaskIds == {Descriptor[i].task_id :
               i \in {j \in 1..Len(Descriptor) : Descriptor[j].kind = "operator"}}

\* Task instance t of run r exists.
Exists(r, t) ==
    /\ dagbag # {}
    /\ r \in DOMAIN runs
    /\ t \in DOMAIN runs[r].ti

\* One step of run r.
RunStep(r) ==
    \E t \in TaskIds :
        /\ Exists(r, t)
        /\ \/ StartTask(r, t)
           \/ MarkUpstreamFailed(r, t)
           \/ TrainingReturns(r, t)
           \/ TrainingRaises(r, t)
           \/ SyncArtifacts(r, t)
           \/ SyncFinalModel(r, t)
           \/ SyncReturns(r, t)

Next ==
    \/ Tick
    \/ EvalStmt
    \/ EvalRaises
    \/ EvalEnds
    \/ CreateRun
    \/ \E r \in RunIds, t \in TaskIds : Exists(r, t) /\ StartTask(r, t)
    \/ \E r \in RunIds, t \in TaskIds : Exists(r, t) /\ MarkUpstreamFailed(r, t)
    \/ \E r \in RunIds, t \in TaskIds : Exists(r, t) /\ TrainingReturns(r, t)
    \/ \E r \in RunIds, t \in TaskIds : Exists(r, t) /\ TrainingRaises(r, t)
    \/ \E r \in RunIds, t \in TaskIds : Exists(r, t) /\ SyncArtifacts(r, t)
    \/ \E r \in RunIds, t \in TaskIds : Exists(r, t) /\ SyncFinalModel(r, t)
    \/ \E r \in RunIds, t \in TaskIds : Exists(r, t) /\ SyncReturns(r, t)

Spec == Init /\ [][Next]_vars

\* The orchestrator keeps scheduling, and every invocation of a callable
\* returns or raises: while some run can take a step, some run does.
FairSpec == Spec /\ WF_vars(\E r \in RunIds : RunStep(r))

\* ================================================================= claims
Train(r) == runs[r].ti["train_pipeline"]

Sync(r) == runs[r].ti["sync_data_to_s3"]

\* C1: in every run, sync_data_to_s3 has begun (been invoked, issued a
\* command, or left the state "none" other than by upstream failure) only
\* if train_pipeline of the same run has succeeded; so a failed
\* train_pipeline leaves sync_data_to_s3 never started.
C1_SyncOnlyAfterTrainSucceeded ==
    \A r \in DOMAIN runs :
        /\ (\/ Sync(r).tries > 0
            \/ Sync(r).state \in {"running", "up_for_retry", "success", "failed"}
            \/ runs[r].cmds # <<>>)
           => Train(r).state = "success"
        /\ Train(r).state = "failed" =>
              Sync(r).tries = 0 /\ Sync(r).state \in {"none", "upstream_failed"}

C1_Witness ==
    \E r1, r2 \in DOMAIN runs :
        /\ Sync(r1).state = "running"
        /\ Train(r2).state = "failed" /\ Sync(r2).state = "upstream_failed"

C3_SucceedsOnThirdInvocation ==
    \A r \in DOMAIN runs :
        /\ runs[r].outcomes = <<"raised", "raised">> =>
              \/ Train(r).state = "up_for_retry" /\ Train(r).tries = 2
              \/ Train(r).state = "running" /\ Train(r).tries = 3
        /\ runs[r].outcomes = <<"raised", "raised", "returned">> =>
              /\ Train(r).state = "success"
              /\ Train(r).tries = 3
              /\ Sync(r).state # "upstream_failed"
              /\ Sync(r).state = "none" =>
                    TriggerRuleMet(runs[r], TheDag, "sync_data_to_s3")

C3_Witness ==
    \E r \in DOMAIN runs :
        /\ runs[r].outcomes = <<"raised", "raised", "returned">>
        /\ Sync(r).state = "none"

\* C4: no task instance is invoked more than 3 times (2 retries); a task
\* fails only on its third invocation, and a training that raised 3 times
\* has failed.
C4_AtMostTwoRetries ==
    \A r \in DOMAIN runs :
        /\ \A t \in DOMAIN runs[r].ti :
              /\ runs[r].ti[t].tries <= 3
              /\ runs[r].ti[t].state = "failed" => runs[r].ti[t].tries = 3
        /\ Len(runs[r].outcomes) <= 3
        /\ runs[r].outcomes = <<"raised", "raised", "raised">> =>
              Train(r).state = "failed"

C4_Witness ==
    \E r \in DOMAIN runs :
        /\ Train(r).state = "failed"
        /\ runs[r].outcomes = <<"raised", "raised", "raised">>

\* C5: a sync command that exited non-zero changes nothing: the task goes on
\* in its first invocation, ends successful, and the run is reported
\* successful.
C5_SyncExitStatusIgnored ==
    \A r \in DOMAIN runs :
        (\E i \in 1..Len(runs[r].cmds) : runs[r].cmds[i].rc # 0) =>
            /\ Sync(r).state \in {"running", "success"}
            /\ Sync(r).tries = 1
            /\ Sync(r).state = "success" => RunState(runs[r], TheDag) = "success"

C5_Witness ==
    \E r \in DOMAIN runs :
        /\ \A i \in 1..Len(runs[r].cmds) : runs[r].cmds[i].rc # 0
        /\ Len(runs[r].cmds) = 2
        /\ Sync(r).state = "success"
        /\ RunState(runs[r], TheDag) = "success"

C9_TwoCommandsInOrder ==
    \A r \in DOMAIN runs :
        /\ Len(runs[r].cmds) <= 2
        /\ Len(runs[r].cmds) >= 1 =>
              runs[r].cmds[1].cmd = [src |-> "/app/Artifacts",
                                     bucket |-> "networksecurity3",
                                     prefix |-> "artifact"]
        /\ Len(runs[r].cmds) >= 2 =>
              runs[r].cmds[2].cmd = [src |-> "/app/final_model",
                                     bucket |-> "networksecurity3",
                                     prefix |-> "final_model"]
        /\ Len(runs[r].cmds) = 1 =>
              Sync(r).state = "running" /\ Sync(r).pc = 2
        /\ Sync(r).state = "success" => Len(runs[r].cmds) = 2

C9_Witness ==
    \E r \in DOMAIN runs :
        /\ Len(runs[r].cmds) = 2
        /\ runs[r].cmds[1].rc # 0
        /\ Sync(r).state = "success"

\* C10: the two final outcomes of a run.
TrainFailedOutcome(r) ==
    /\ Train(r).state = "failed"
    /\ Train(r).tries = 3
    /\ Sync(r).tries = 0
    /\ runs[r].cmds = <<>>

SyncedOutcome(r) ==
    /\ Train(r).state = "success"
    /\ Sync(r).state = "success"
    /\ Sync(r).tries = 1
    /\ Len(runs[r].cmds) = 2

\* C10: under fair scheduling every run that was created reaches one of the
\* two outcomes (they are final, so: again and again every run created so
\* far is in one of them), and a run that is over is in one of them.
C10_EveryRunEnds ==
    /\ []<>(\A r \in DOMAIN runs : TrainFailedOutcome(r) \/ SyncedOutcome(r))
    /\ [](\A r \in DOMAIN runs :
             RunState(runs[r], TheDag) # "running" =>
                 (TrainFailedOutcome(r) \/ SyncedOutcome(r)))

C10_Witness ==
    \E r1, r2 \in DOMAIN runs :
        /\ TrainFailedOutcome(r1) /\ RunState(runs[r1], TheDag) = "failed"
        /\ SyncedOutcome(r2) /\ RunState(runs[r2], TheDag) = "success"

====
